---- MODULE Spec2Model ----
(***************************************************************************)
(* A model of the devsecops-ai scanner: the classifier (package ai,        *)
(* Classifier), the detector (package ai, Detector) and the reporter's     *)
(* statistics (package reporter).                                          *)
(*                                                                         *)
(* Strings the code inspects byte by byte (strings.Contains,               *)
(* strings.ToLower, the ordering of category names, Sprintf on the         *)
(* description) are sequences of byte values.  Strings the code only       *)
(* copies or compares whole are TLA+ strings.  float64 values are exact    *)
(* fractions [n, d] in lowest terms: every value the code computes is a    *)
(* quotient of multiples of 0.5, and IEEE division is correctly rounded,   *)
(* so comparing the fractions agrees with comparing the doubles.           *)
(***************************************************************************)
EXTENDS Integers, Sequences, FiniteSets, TLC

VARIABLES
    rulesFile,         \* <modelPath>/rules.json as the file system holds it
    configFile,        \* <modelPath>/config.json as the file system holds it
    c,                 \* the Classifier object
    finding,           \* the caller's Finding, which Classify mutates in place
    call,              \* the last Classifier call: its name, argument, threshold read
    err,               \* what the last Classifier call returned
    d,                 \* the Detector object
    input,             \* the findings argument of the last Analyze call
    enhancedFindings,  \* Analyze's local slice just before prioritizeFindings
    aiResults,         \* what the last Analyze call returned
    analyzeErr,        \* the error (or panic) of the last Analyze call
    report,            \* the Report the last Generate call assembled
    scoreArgs,         \* the arguments of a calculateScore call
    scoreOut,          \* the value that call returned
    walk,              \* the entries under TargetPath, in filepath.Walk's order
    pc,                \* where main is
    scanFindings,      \* the findings the last Scan call returned
    scanErr,           \* the error the last Scan call returned
    analyzedPaths,     \* the paths Scan handed to analyzeFile, in order
    jobs,              \* the findings given to the parallel workers, one each
    workers,           \* each worker's position in Classify and its finding
    serial             \* the same findings classified one call after another

vars == <<rulesFile, configFile, c, finding, call, err,
          d, input, enhancedFindings, aiResults, analyzeErr, report,
          scoreArgs, scoreOut,
          walk, pc, scanFindings, scanErr, analyzedPaths,
          jobs, workers, serial>>

classifierVars == <<c, finding, call, err>>
detectorVars == <<d, input, enhancedFindings, aiResults, analyzeErr, report>>
scoreVars == <<scoreArgs, scoreOut>>
scannerVars == <<scanFindings, scanErr, analyzedPaths>>
mainVars == <<walk, pc, scannerVars>>
parallelVars == <<jobs, workers, serial>>

----------------------------------------------------------------------------
(* Bounds of the model. *)

MaxRules == 2          \* rules in a rules.json
MaxInput == 2          \* findings passed to one Analyze call
MaxConfigFindings == 2 \* largest maxFindings a config.json supplies
MaxPatterns == 2       \* patterns of a profile handed to calculateScore
MaxKeywords == 2       \* keywords of a profile handed to calculateScore
MaxEntries == 3        \* entries filepath.Walk visits
MaxWorkers == 2        \* goroutines classifying in parallel

----------------------------------------------------------------------------
(* Byte strings. *)

b_empty == <<>>
b_SELECT == <<83, 69, 76, 69, 67, 84>>
b_key == <<107, 101, 121>>
b_Key == <<75, 101, 121>>
b_sql == <<115, 113, 108>>
b_SQL == <<83, 81, 76>>
b_SELECT_key == <<83, 69, 76, 69, 67, 84, 32, 107, 101, 121>>
b_key_SQL == <<107, 101, 121, 32, 83, 81, 76>>
b_Injection == <<73, 110, 106, 101, 99, 116, 105, 111, 110>>
b_Security == <<83, 101, 99, 117, 114, 105, 116, 121>>
b_FileSystem == <<70, 105, 108, 101, 83, 121, 115, 116, 101, 109>>
\* " (AI Verified)"
b_AIVerified == <<32, 40, 65, 73, 32, 86, 101, 114, 105, 102, 105, 101, 100, 41>>

\* strings.Contains(s, substr)
Contains(s, substr) ==
    \E i \in 1..(Len(s) - Len(substr) + 1) :
        SubSeq(s, i, i + Len(substr) - 1) = substr

\* strings.ToLower(s) on ASCII
ToLower(s) ==
    [i \in 1..Len(s) |-> IF s[i] >= 65 /\ s[i] <= 90 THEN s[i] + 32 ELSE s[i]]

\* Go's s < t on strings: byte-wise lexicographic order
RECURSIVE LexLess(_, _)
LexLess(s, t) ==
    IF t = <<>> THEN FALSE
    ELSE IF s = <<>> THEN TRUE
    ELSE IF s[1] # t[1] THEN s[1] < t[1]
    ELSE LexLess(Tail(s), Tail(t))

----------------------------------------------------------------------------
(* float64 values as fractions in lowest terms. *)

RECURSIVE GCD(_, _)
GCD(a, b) == IF b = 0 THEN a ELSE GCD(b, a % b)

Abs(x) == IF x < 0 THEN -x ELSE x

Rat(n, dd) ==
    LET s == IF dd < 0 THEN -1 ELSE 1
        g == GCD(Abs(n), Abs(dd))
    IN  [n |-> (s * n) \div g, d |-> (s * dd) \div g]

Zero == Rat(0, 1)
One == Rat(1, 1)
Half == Rat(1, 2)

RatAdd(a, b) == Rat(a.n * b.d + b.n * a.d, a.d * b.d)
RatMul(a, b) == Rat(a.n * b.n, a.d * b.d)
RatDiv(a, b) == Rat(a.n * b.d, a.d * b.n)
RatLeq(a, b) == a.n * b.d <= b.n * a.d
RatLess(a, b) == a.n * b.d < b.n * a.d

----------------------------------------------------------------------------
(* Rules, findings and the files of the model directory. *)

Rule1 == [ID |-> "RULE-001", Name |-> "SQL Injection Detection",
          Pattern |-> b_SELECT, Severity |-> "HIGH", Category |-> b_Injection,
          Keywords |-> <<b_sql>>, Description |-> b_SQL]
Rule2 == [ID |-> "RULE-002", Name |-> "Hardcoded Credentials",
          Pattern |-> b_key, Severity |-> "CRITICAL", Category |-> b_Security,
          Keywords |-> <<b_Key>>, Description |-> b_key]
\* a rule without a pattern
Rule3 == [ID |-> "RULE-003", Name |-> "Insecure File Operations",
          Pattern |-> b_empty, Severity |-> "MEDIUM", Category |-> b_FileSystem,
          Keywords |-> <<>>, Description |-> b_empty]
\* a second rule of the Injection category, its severity in free text
Rule4 == [ID |-> "RULE-004", Name |-> "SQL Injection Detection",
          Pattern |-> b_SELECT, Severity |-> "high", Category |-> b_Injection,
          Keywords |-> <<>>, Description |-> b_sql]

Rules == {Rule1, Rule2, Rule3, Rule4}

SeqsUpTo(S, n) == UNION {[1..k -> S] : k \in 0..n}

RuleSeqs == SeqsUpTo(Rules, MaxRules)

\* rules.json: absent, unreadable, not JSON, {"rules": [...]} or a bare [...]
RulesFiles ==
    {[status |-> s, form |-> "none", rules |-> <<>>] :
        s \in {"missing", "unreadable", "malformed"}}
    \cup {[status |-> "ok", form |-> f, rules |-> rs] :
            f \in {"object", "array"}, rs \in RuleSeqs}

\* config.json: a key the JSON object omits is the Go zero value.  maxes are
\* the values of "maxFindings" in the files that have the key.
ConfigFiles(thresholds, maxes) ==
    {[status |-> s, threshold |-> Zero, confidence |-> Zero,
      hasMaxFindings |-> FALSE, maxFindings |-> 0] :
        s \in {"missing", "unreadable", "malformed"}}
    \cup {[status |-> "ok", threshold |-> t, confidence |-> Rat(9, 10),
           hasMaxFindings |-> TRUE, maxFindings |-> m] :
            t \in thresholds, m \in maxes}
    \cup {[status |-> "ok", threshold |-> t, confidence |-> Rat(9, 10),
           hasMaxFindings |-> FALSE, maxFindings |-> 0] :
            t \in thresholds}

Thresholds == {Zero, Half, Rat(4, 5), One}

Finding(id, desc, sev, cat, snippet, rem) ==
    [ID |-> id, Title |-> "", Description |-> desc, Severity |-> sev,
     Category |-> cat, Location |-> "main.go", CodeSnippet |-> snippet,
     Timestamp |-> 0, Remediation |-> rem, Confidence |-> Zero]

\* models.Finding{}
ZeroFinding ==
    [ID |-> "", Title |-> "", Description |-> b_empty, Severity |-> "",
     Category |-> b_empty, Location |-> "", CodeSnippet |-> b_empty,
     Timestamp |-> 0, Remediation |-> "", Confidence |-> Zero]

\* the findings handed to Classify
ClassifyInputs ==
    {Finding("F-1", b_SQL, "HIGH", b_Injection, b_SELECT, ""),
     Finding("F-2", b_key_SQL, "HIGH", b_Injection, b_SELECT_key, ""),
     Finding("F-3", b_empty, "LOW", b_Security, b_SELECT, ""),
     ZeroFinding}

----------------------------------------------------------------------------
(* The Classifier. *)

ZeroFeatures ==
    [Patterns |-> <<>>, Keywords |-> <<>>, Weights |-> <<>>, Threshold |-> Zero]

\* a Go map read: the zero value for a key the map lacks
MapGet(m, k) == IF k \in DOMAIN m THEN m[k] ELSE ZeroFeatures

MapPut(m, k, v) == [x \in (DOMAIN m) \cup {k} |-> IF x = k THEN v ELSE m[x]]

EmptyMap == [x \in {} |-> ZeroFeatures]

\* the object before its constructor runs
NoClassifier ==
    [constructed |-> FALSE, threshold |-> Zero, initialized |-> FALSE,
     categoryData |-> EmptyMap]

\* Classifier.loadConfig
loadConfig(cl) ==
    IF configFile.status # "ok"
    THEN [err |-> TRUE, c |-> cl]
    ELSE [err |-> FALSE, c |-> [cl EXCEPT !.threshold = configFile.threshold]]

\* the loop body with a pattern the category already holds passed over
foldRuleOncePerPattern(data, rule, threshold) ==
    LET features == MapGet(data, rule.Category)
        seen == \E i \in 1..Len(features.Patterns) :
                    features.Patterns[i] = rule.Pattern
    IN  MapPut(data, rule.Category,
               [Patterns |-> IF seen THEN features.Patterns
                             ELSE Append(features.Patterns, rule.Pattern),
                Keywords |-> features.Keywords \o rule.Keywords,
                Weights |-> IF seen THEN features.Weights
                            ELSE Append(features.Weights, One),
                Threshold |-> threshold])

\* the body of the loop of Classifier.loadCategories, for one rule
foldRule(data, rule, threshold) ==
    LET features == MapGet(data, rule.Category)
    IN  MapPut(data, rule.Category,
               [Patterns |-> Append(features.Patterns, rule.Pattern),
                Keywords |-> features.Keywords \o rule.Keywords,
                Weights |-> Append(features.Weights, One),
                Threshold |-> threshold])

RECURSIVE foldRules(_, _, _)
foldRules(data, rules, threshold) ==
    IF rules = <<>> THEN data
    ELSE foldRules(foldRule(data, Head(rules), threshold), Tail(rules), threshold)

\* Classifier.loadCategories
loadCategories(cl) ==
    IF rulesFile.status # "ok" \/ rulesFile.form # "object"
    THEN [err |-> TRUE, c |-> cl]
    ELSE [err |-> FALSE,
          c |-> [cl EXCEPT !.categoryData =
                     foldRules(cl.categoryData, rulesFile.rules, cl.threshold)]]

\* initialize with the error of loadCategories dropped
initializeIgnoringRules(cl) ==
    LET r1 == loadConfig(cl)
        r2 == loadCategories(r1.c)
    IN  IF r1.err THEN [err |-> TRUE, c |-> r1.c]
        ELSE [err |-> FALSE, c |-> [r2.c EXCEPT !.initialized = TRUE]]

\* Classifier.initialize
initialize(cl) ==
    LET r1 == loadConfig(cl)
        r2 == loadCategories(r1.c)
    IN  IF r1.err THEN [err |-> TRUE, c |-> r1.c]
        ELSE IF r2.err THEN [err |-> TRUE, c |-> r2.c]
        ELSE [err |-> FALSE, c |-> [r2.c EXCEPT !.initialized = TRUE]]

\* NewClassifier
NewClassifier ==
    /\ ~c.constructed
    /\ c' = initialize([constructed |-> TRUE, threshold |-> Rat(4, 5),
                        initialized |-> FALSE, categoryData |-> EmptyMap]).c
    /\ call' = [op |-> "NewClassifier", finding |-> ZeroFinding, threshold |-> Zero]
    /\ UNCHANGED <<rulesFile, configFile, finding, err, detectorVars, scoreVars>>

\* the loop over features.Patterns of Classifier.calculateScore
RECURSIVE patternScore(_, _, _)
patternScore(f, features, i) ==
    IF i > Len(features.Patterns) THEN Zero
    ELSE RatAdd(IF Contains(f.CodeSnippet, features.Patterns[i])
                THEN features.Weights[i] ELSE Zero,
                patternScore(f, features, i + 1))

\* the loop over features.Keywords of Classifier.calculateScore
RECURSIVE keywordScore(_, _, _)
keywordScore(f, features, i) ==
    IF i > Len(features.Keywords) THEN Zero
    ELSE RatAdd(IF Contains(ToLower(f.Description), ToLower(features.Keywords[i]))
                THEN Half ELSE Zero,
                keywordScore(f, features, i + 1))

\* maxScore with a keyword counted like a pattern
maxScoreKeywordsWhole(features) ==
    RatAdd(Rat(Len(features.Patterns), 1), Rat(Len(features.Keywords), 1))

\* maxScore of Classifier.calculateScore
maxScore(features) ==
    RatAdd(Rat(Len(features.Patterns), 1),
           RatMul(Rat(Len(features.Keywords), 1), Half))

\* calculateScore without its normalization
calculateScoreRaw(f, features) ==
    RatAdd(patternScore(f, features, 1), keywordScore(f, features, 1))

\* Classifier.calculateScore
calculateScore(f, features) ==
    LET score == RatAdd(patternScore(f, features, 1), keywordScore(f, features, 1))
    IN  IF RatLess(Zero, maxScore(features))
        THEN RatDiv(score, maxScore(features))
        ELSE score

\* the scores map Classify builds
Scores(cl, f) ==
    [category \in DOMAIN cl.categoryData |->
        calculateScore(f, cl.categoryData[category])]

\* Classifier.getBestCategory: the results it can return.  The slice is filled
\* in the map's iteration order, which Go randomizes, and sorted by score
\* alone, so sorted[0] is any of the categories with the greatest score.
getBestCategory(scores) ==
    IF DOMAIN scores = {}
    THEN {[category |-> b_empty, score |-> Zero]}
    ELSE {[category |-> k, score |-> scores[k]] :
            k \in {k \in DOMAIN scores :
                     \A j \in DOMAIN scores : RatLeq(scores[j], scores[k])}}

\* the test written `bestScore > c.threshold`
thresholdMetStrict(bestScore, threshold) == RatLess(threshold, bestScore)

\* the test `bestScore >= c.threshold` of Classifier.Classify
thresholdMet(bestScore, threshold) == RatLeq(threshold, bestScore)

\* Classifier.Classify
Classify(f) ==
    /\ c.constructed
    /\ IF ~c.initialized
       THEN /\ err' = "classifier not initialized"
            /\ finding' = f
       ELSE /\ err' = "nil"
            /\ \E best \in getBestCategory(Scores(c, f)) :
                 finding' = IF thresholdMet(best.score, c.threshold)
                            THEN [f EXCEPT !.Category = best.category,
                                           !.Confidence = best.score]
                            ELSE f
    /\ call' = [op |-> "Classify", finding |-> f, threshold |-> c.threshold]
    /\ UNCHANGED <<rulesFile, configFile, c, detectorVars, scoreVars>>

\* Classifier.UpdateThreshold
UpdateThreshold(threshold) ==
    /\ c.constructed
    /\ c' = [c EXCEPT !.threshold = threshold]
    /\ call' = [op |-> "UpdateThreshold", finding |-> ZeroFinding,
                threshold |-> threshold]
    /\ UNCHANGED <<rulesFile, configFile, finding, err, detectorVars, scoreVars>>

----------------------------------------------------------------------------
(* The Detector and the reporter's statistics. *)

DefaultMaxFindings == 100

DefaultRemediation == "AI suggested: Review and sanitize all inputs"

\* the Detector object before its constructor runs
NoDetector ==
    [constructed |-> FALSE, confidence |-> Zero, maxFindings |-> 0,
     initialized |-> FALSE, rules |-> <<>>]

\* loadRules: rules.json is unmarshalled into a []Rule
loadRules ==
    IF rulesFile.status # "ok" \/ rulesFile.form # "array"
    THEN [err |-> TRUE, rules |-> <<>>]
    ELSE [err |-> FALSE, rules |-> rulesFile.rules]

\* loadConfig of the detector: config.json is unmarshalled into a DetectorConfig
Detector_loadConfig ==
    IF configFile.status # "ok"
    THEN [err |-> TRUE, Confidence |-> Zero, MaxFindings |-> 0]
    ELSE [err |-> FALSE, Confidence |-> configFile.confidence,
          MaxFindings |-> configFile.maxFindings]

\* initialize that marks the detector initialized although config.json failed
Detector_initializeDespiteConfig(det) ==
    LET rulesFound == rulesFile.status # "missing"
        d1 == IF rulesFound /\ ~loadRules.err
              THEN [det EXCEPT !.rules = loadRules.rules] ELSE det
    IN  IF rulesFound /\ loadRules.err THEN [err |-> TRUE, d |-> det]
        ELSE [err |-> FALSE, d |-> [d1 EXCEPT !.initialized = TRUE]]

\* Detector.initialize: a file os.Stat does not find is skipped
Detector_initialize(det) ==
    LET rulesFound == rulesFile.status # "missing"
        configFound == configFile.status # "missing"
        d1 == IF rulesFound /\ ~loadRules.err
              THEN [det EXCEPT !.rules = loadRules.rules] ELSE det
        d2 == IF configFound /\ ~Detector_loadConfig.err
              THEN [d1 EXCEPT !.confidence = Detector_loadConfig.Confidence,
                              !.maxFindings = Detector_loadConfig.MaxFindings]
              ELSE d1
    IN  IF rulesFound /\ loadRules.err THEN [err |-> TRUE, d |-> det]
        ELSE IF configFound /\ Detector_loadConfig.err THEN [err |-> TRUE, d |-> d1]
        ELSE [err |-> FALSE, d |-> [d2 EXCEPT !.initialized = TRUE]]

\* enhanceFinding with the remediation always replaced
enhanceFindingOverwrite(f) ==
    [f EXCEPT !.Description = f.Description \o b_AIVerified,
              !.Remediation = DefaultRemediation]

\* Detector.enhanceFinding
enhanceFinding(f) ==
    LET g == [f EXCEPT !.Description = f.Description \o b_AIVerified]
    IN  IF g.Remediation = ""
        THEN [g EXCEPT !.Remediation = DefaultRemediation]
        ELSE g

\* the models.Finding literal of detectAdditionalIssues
ruleFinding(rule) ==
    [ZeroFinding EXCEPT !.ID = "AI-" \o rule.ID,
                        !.Title = rule.Name,
                        !.Description = rule.Description,
                        !.Severity = rule.Severity,
                        !.Category = rule.Category]

\* detectAdditionalIssues without the test of the pattern
RECURSIVE detectAdditionalIssuesAnyPattern(_, _)
detectAdditionalIssuesAnyPattern(rules, findings) ==
    IF rules = <<>> THEN <<>>
    ELSE <<ruleFinding(Head(rules))>>
         \o detectAdditionalIssuesAnyPattern(Tail(rules), findings)

\* Detector.detectAdditionalIssues, over d.rules
RECURSIVE detectAdditionalIssues(_, _)
detectAdditionalIssues(rules, findings) ==
    IF rules = <<>> THEN <<>>
    ELSE (IF Head(rules).Pattern # b_empty
          THEN <<ruleFinding(Head(rules))>> ELSE <<>>)
         \o detectAdditionalIssues(Tail(rules), findings)

\* prioritizeFindings keeping the last maxFindings elements
prioritizeFindingsTail(det, findings) ==
    IF Len(findings) > det.maxFindings
    THEN IF det.maxFindings < 0
         THEN [panic |-> TRUE, findings |-> <<>>]
         ELSE [panic |-> FALSE,
               findings |-> SubSeq(findings, Len(findings) - det.maxFindings + 1,
                                   Len(findings))]
    ELSE [panic |-> FALSE, findings |-> findings]

\* Detector.prioritizeFindings: findings[:d.maxFindings] panics (slice bounds
\* out of range) when maxFindings is negative
prioritizeFindings(det, findings) ==
    IF Len(findings) > det.maxFindings
    THEN IF det.maxFindings < 0
         THEN [panic |-> TRUE, findings |-> <<>>]
         ELSE [panic |-> FALSE, findings |-> SubSeq(findings, 1, det.maxFindings)]
    ELSE [panic |-> FALSE, findings |-> findings]

\* Analyze's enhancedFindings before prioritizeFindings
enhanceAll(det, findings) ==
    [i \in 1..Len(findings) |-> enhanceFinding(findings[i])]
    \o detectAdditionalIssues(det.rules, findings)

NoStats ==
    [TotalFindings |-> 0, CriticalCount |-> 0, HighCount |-> 0,
     MediumCount |-> 0, LowCount |-> 0, InfoCount |-> 0]

\* the body of the loop of Reporter.calculateStats, for one finding
countFinding(st, f) ==
    LET t == [st EXCEPT !.TotalFindings = @ + 1]
    IN  CASE f.Severity = "CRITICAL" -> [t EXCEPT !.CriticalCount = @ + 1]
          [] f.Severity = "HIGH" -> [t EXCEPT !.HighCount = @ + 1]
          [] f.Severity = "MEDIUM" -> [t EXCEPT !.MediumCount = @ + 1]
          [] f.Severity = "LOW" -> [t EXCEPT !.LowCount = @ + 1]
          [] f.Severity = "INFO" -> [t EXCEPT !.InfoCount = @ + 1]
          [] OTHER -> t

RECURSIVE foldStats(_, _)
foldStats(st, findings) ==
    IF findings = <<>> THEN st
    ELSE foldStats(countFinding(st, Head(findings)), Tail(findings))

\* Reporter.calculateStats
calculateStats(findings) == foldStats(NoStats, findings)

NoReport == [generated |-> FALSE, Findings |-> <<>>, SummaryStats |-> NoStats]

\* NewDetector
NewDetector ==
    /\ ~d.constructed
    /\ d' = Detector_initialize(
                [constructed |-> TRUE, confidence |-> Rat(3, 4),
                 maxFindings |-> DefaultMaxFindings, initialized |-> FALSE,
                 rules |-> <<>>]).d
    /\ UNCHANGED <<rulesFile, configFile, classifierVars, scoreVars,
                   input, enhancedFindings, aiResults, analyzeErr, report>>

\* Detector.Analyze
Analyze(findings) ==
    /\ d.constructed
    /\ input' = findings
    /\ IF ~d.initialized
       THEN /\ enhancedFindings' = <<>>
            /\ aiResults' = findings
            /\ analyzeErr' = "detector not properly initialized"
       ELSE LET r == prioritizeFindings(d, enhanceAll(d, findings))
            IN  /\ enhancedFindings' = enhanceAll(d, findings)
                /\ aiResults' = r.findings
                /\ analyzeErr' = IF r.panic THEN "panic" ELSE "nil"
    /\ report' = NoReport
    /\ UNCHANGED <<rulesFile, configFile, classifierVars, scoreVars, d>>

\* Reporter.Generate on the findings Analyze returned: createReport
Generate ==
    /\ analyzeErr = "nil"
    /\ ~report.generated
    /\ report' = [generated |-> TRUE, Findings |-> aiResults,
                  SummaryStats |-> calculateStats(aiResults)]
    /\ UNCHANGED <<rulesFile, configFile, classifierVars, scoreVars,
                   d, input, enhancedFindings, aiResults, analyzeErr>>

----------------------------------------------------------------------------
(* The Scanner. *)

NilError == [kind |-> "nil", path |-> ""]

\* what Scan has returned before it is ever called
NoError == [kind |-> "none", path |-> ""]

\* Scanner.analyzeFile
analyzeFile(path) == [findings |-> <<>>, err |-> NilError]

\* the walk function of Scan with the error of an entry dropped
walkFnKeepGoing(acc, entry) ==
    IF entry.err \/ entry.isDir
    THEN acc
    ELSE LET r == analyzeFile(entry.path)
         IN  [acc EXCEPT !.findings = acc.findings \o r.findings,
                         !.analyzed = Append(acc.analyzed, entry.path)]

\* the function Scan passes to filepath.Walk, for one entry; acc.err # nil
\* ends the walk
walkFn(acc, entry) ==
    IF entry.err
    THEN [acc EXCEPT !.err = [kind |-> "walk", path |-> entry.path]]
    ELSE IF entry.isDir
    THEN acc
    ELSE LET r == analyzeFile(entry.path)
             seen == [acc EXCEPT !.analyzed = Append(acc.analyzed, entry.path)]
         IN  IF r.err # NilError
             THEN [seen EXCEPT !.err = [kind |-> "analyzing", path |-> entry.path]]
             ELSE [seen EXCEPT !.findings = acc.findings \o r.findings]

\* filepath.Walk: the entries in order, until the function returns an error
RECURSIVE Walk(_, _)
Walk(entries, acc) ==
    IF entries = <<>> \/ acc.err # NilError THEN acc
    ELSE Walk(Tail(entries), walkFn(acc, Head(entries)))

\* Scanner.Scan
Scan ==
    LET r == Walk(walk, [findings |-> <<>>, analyzed |-> <<>>, err |-> NilError])
    IN  /\ scanFindings' = r.findings
        /\ scanErr' = r.err
        /\ analyzedPaths' = r.analyzed

InitScannerVars ==
    /\ scanFindings = <<>>
    /\ scanErr = NoError
    /\ analyzedPaths = <<>>

\* no parallel classification
InitParallelVars ==
    /\ jobs = <<>>
    /\ workers = <<>>
    /\ serial = <<>>

\* no target tree, main not started
InitMainVars ==
    /\ walk = <<>>
    /\ pc = "idle"
    /\ InitScannerVars

InitDetectorVars ==
    /\ d = NoDetector
    /\ input = <<>>
    /\ enhancedFindings = <<>>
    /\ aiResults = <<>>
    /\ analyzeErr = "none"
    /\ report = NoReport

NoScore == [done |-> FALSE, value |-> Zero]

InitScoreVars ==
    /\ scoreArgs = [finding |-> ZeroFinding, features |-> ZeroFeatures]
    /\ scoreOut = NoScore

InitClassifierVars ==
    /\ c = NoClassifier
    /\ finding = ZeroFinding
    /\ call = [op |-> "none", finding |-> ZeroFinding, threshold |-> Zero]
    /\ err = "none"

----------------------------------------------------------------------------
(* The classifier and its callers. *)

InitClassifier ==
    /\ rulesFile \in RulesFiles
    /\ configFile \in ConfigFiles(Thresholds, {})
    /\ InitClassifierVars
    /\ InitDetectorVars
    /\ InitScoreVars
    /\ InitMainVars
    /\ InitParallelVars

NextClassifier ==
    \/ NewClassifier /\ UNCHANGED <<mainVars, parallelVars>>
    \/ \E f \in ClassifyInputs \cup {finding} : Classify(f) /\ UNCHANGED <<mainVars, parallelVars>>
    \/ \E t \in Thresholds : UpdateThreshold(t) /\ UNCHANGED <<mainVars, parallelVars>>

SpecClassifier == InitClassifier /\ [][NextClassifier]_vars

----------------------------------------------------------------------------
(* The detector, its callers and the report. *)

\* the findings handed to Analyze; the third is a finding for Rule1
AnalyzeInputs ==
    {Finding("F-1", b_SQL, "HIGH", b_Injection, b_SELECT, ""),
     Finding("F-2", b_key, "CRITICAL", b_Security, b_key, "Rotate the key"),
     ruleFinding(Rule1)}

Init ==
    /\ rulesFile \in RulesFiles
    /\ configFile \in ConfigFiles({Zero}, -1..MaxConfigFindings)
    /\ InitClassifierVars
    /\ InitDetectorVars
    /\ InitScoreVars
    /\ InitMainVars
    /\ InitParallelVars

Next ==
    \/ NewDetector /\ UNCHANGED <<mainVars, parallelVars>>
    \/ \E findings \in SeqsUpTo(AnalyzeInputs, MaxInput) :
          Analyze(findings) /\ UNCHANGED <<mainVars, parallelVars>>
    \/ Generate /\ UNCHANGED <<mainVars, parallelVars>>

Spec == Init /\ [][Next]_vars

----------------------------------------------------------------------------
(* main: NewDetector, Scan, Analyze, Generate. *)

\* what TargetPath can hold, in the lexical order filepath.Walk visits it:
\* two files, a directory, and an entry whose Lstat fails
Entries ==
    <<[path |-> "a.go", isDir |-> FALSE, err |-> FALSE, content |-> b_SELECT],
      [path |-> "b.go", isDir |-> FALSE, err |-> TRUE, content |-> b_empty],
      [path |-> "c.go", isDir |-> FALSE, err |-> FALSE, content |-> b_key],
      [path |-> "lib", isDir |-> TRUE, err |-> FALSE, content |-> b_empty]>>

\* the trees: at most MaxEntries of the entries, in that order
Walks ==
    {[i \in 1..Len(ix) |-> Entries[ix[i]]] :
        ix \in {s \in SeqsUpTo(1..Len(Entries), MaxEntries) :
                  \A i, j \in 1..Len(s) : i < j => s[i] < s[j]}}

MainRulesFiles ==
    {f \in RulesFiles :
        \A i \in 1..Len(f.rules) : f.rules[i] \in {Rule1, Rule2}}

InitMain ==
    /\ rulesFile \in MainRulesFiles
    /\ configFile \in ConfigFiles({Zero}, {1})
    /\ InitClassifierVars
    /\ InitDetectorVars
    /\ InitScoreVars
    /\ walk \in Walks
    /\ pc = "start"
    /\ InitScannerVars
    /\ InitParallelVars

\* detector := ai.NewDetector(*modelPath)
MainNewDetector ==
    /\ pc = "start"
    /\ NewDetector
    /\ pc' = "detector"
    /\ UNCHANGED <<walk, scannerVars, parallelVars>>

\* findings, err := s.Scan(); log.Fatalf on an error
MainScan ==
    /\ pc = "detector"
    /\ Scan
    /\ pc' = IF scanErr' # NilError THEN "fatal" ELSE "scanned"
    /\ UNCHANGED <<rulesFile, configFile, classifierVars, detectorVars,
                   scoreVars, walk, parallelVars>>

\* aiResults, err := detector.Analyze(findings); log.Fatalf on an error
MainAnalyze ==
    /\ pc = "scanned"
    /\ Analyze(scanFindings)
    /\ pc' = IF analyzeErr' = "nil" THEN "analyzed" ELSE "fatal"
    /\ UNCHANGED <<walk, scannerVars, parallelVars>>

\* r.Generate(aiResults, ...)
MainGenerate ==
    /\ pc = "analyzed"
    /\ Generate
    /\ pc' = "done"
    /\ UNCHANGED <<walk, scannerVars, parallelVars>>

NextMain ==
    \/ MainNewDetector
    \/ MainScan
    \/ MainAnalyze
    \/ MainGenerate

SpecMain == InitMain /\ [][NextMain]_vars

----------------------------------------------------------------------------
(* Classify run by several goroutines on one Classifier, each on its own   *)
(* finding, next to the same findings classified by one goroutine.         *)

\* the result of `if bestScore >= c.threshold { ... }` on finding f
applyBest(f, best, threshold) ==
    IF thresholdMet(best.score, threshold)
    THEN [f EXCEPT !.Category = best.category, !.Confidence = best.score]
    ELSE f

InitParallel ==
    /\ rulesFile \in {f \in MainRulesFiles : f.status = "ok" /\ f.form = "object"}
    /\ configFile \in ConfigFiles({Zero, One}, {})
    /\ configFile.status = "ok"
    /\ c = initialize([constructed |-> TRUE, threshold |-> Rat(4, 5),
                       initialized |-> FALSE, categoryData |-> EmptyMap]).c
    /\ finding = ZeroFinding
    /\ call = [op |-> "NewClassifier", finding |-> ZeroFinding, threshold |-> Zero]
    /\ err = "none"
    /\ InitDetectorVars
    /\ InitScoreVars
    /\ InitMainVars
    /\ jobs \in [1..MaxWorkers -> ClassifyInputs]
    /\ workers = [w \in 1..MaxWorkers |->
                    [pc |-> "ready", finding |-> jobs[w],
                     best |-> [category |-> b_empty, score |-> Zero]]]
    /\ serial = [i \in 1..MaxWorkers |-> [done |-> FALSE, finding |-> jobs[i]]]

\* worker w runs Classify up to getBestCategory: it reads c.initialized and
\* c.categoryData
WorkerScore(w) ==
    /\ workers[w].pc = "ready"
    /\ c.initialized
    /\ \E best \in getBestCategory(Scores(c, workers[w].finding)) :
         workers' = [workers EXCEPT ![w].pc = "scored", ![w].best = best]
    /\ UNCHANGED <<rulesFile, configFile, classifierVars, detectorVars,
                   scoreVars, mainVars, jobs, serial>>

\* worker w finishes Classify: it reads c.threshold and writes its finding
WorkerUpdate(w) ==
    /\ workers[w].pc = "scored"
    /\ workers' = [workers EXCEPT
                     ![w].pc = "done",
                     ![w].finding = applyBest(@, workers[w].best, c.threshold)]
    /\ UNCHANGED <<rulesFile, configFile, classifierVars, detectorVars,
                   scoreVars, mainVars, jobs, serial>>

\* one goroutine calls Classify on finding i, start to end
SerialClassify(i) ==
    /\ ~serial[i].done
    /\ c.initialized
    /\ \E best \in getBestCategory(Scores(c, serial[i].finding)) :
         serial' = [serial EXCEPT
                      ![i].done = TRUE,
                      ![i].finding = applyBest(@, best, c.threshold)]
    /\ UNCHANGED <<rulesFile, configFile, classifierVars, detectorVars,
                   scoreVars, mainVars, jobs, workers>>

NextParallel ==
    \/ \E w \in 1..MaxWorkers : WorkerScore(w)
    \/ \E w \in 1..MaxWorkers : WorkerUpdate(w)
    \/ \E i \in 1..MaxWorkers : SerialClassify(i)

SpecParallel == InitParallel /\ [][NextParallel]_vars

----------------------------------------------------------------------------
(* calculateScore as a function of its arguments. *)

\* profiles as loadCategories shapes them (one weight of 1.0 per pattern),
\* and the zero value of CategoryFeatures
FeatureInputs ==
    {[Patterns |-> ps, Keywords |-> ks,
      Weights |-> [i \in 1..Len(ps) |-> One], Threshold |-> Rat(4, 5)] :
        ps \in SeqsUpTo({b_SELECT, b_key, b_empty}, MaxPatterns),
        ks \in SeqsUpTo({b_sql, b_Key}, MaxKeywords)}
    \cup {ZeroFeatures}

InitScore ==
    /\ rulesFile = [status |-> "missing", form |-> "none", rules |-> <<>>]
    /\ configFile = [status |-> "missing", threshold |-> Zero, confidence |-> Zero,
                     hasMaxFindings |-> FALSE, maxFindings |-> 0]
    /\ InitClassifierVars
    /\ InitDetectorVars
    /\ scoreArgs \in [finding : ClassifyInputs, features : FeatureInputs]
    /\ scoreOut = NoScore
    /\ InitMainVars
    /\ InitParallelVars

CalculateScore ==
    /\ ~scoreOut.done
    /\ scoreOut' = [done |-> TRUE,
                 value |-> calculateScore(scoreArgs.finding, scoreArgs.features)]
    /\ UNCHANGED <<rulesFile, configFile, classifierVars, detectorVars, scoreArgs>>

NextScore == CalculateScore /\ UNCHANGED <<mainVars, parallelVars>>

SpecScore == InitScore /\ [][NextScore]_vars

----------------------------------------------------------------------------
(* Properties of the classifier. *)

\* the last call was a Classify that returned nil
Classified == call.op = "Classify" /\ err = "nil"

\* C1: after Classify returns without error, the finding's confidence lies
\* in [0, 1].
C1_ConfidenceInUnitInterval ==
    Classified =>
        /\ RatLeq(Zero, finding.Confidence)
        /\ RatLeq(finding.Confidence, One)

\* Classify set a confidence strictly between 0 and 1
C1_Witness ==
    /\ Classified
    /\ finding.Confidence = Rat(2, 3)
    /\ call.finding.Confidence = Zero

\* C2: two runs of Classify from the same finding, profiles and threshold
\* end with the same category and the same confidence.
C2_Deterministic ==
    [][(/\ Classified
        /\ call'.op = "Classify" /\ err' = "nil"
        /\ call'.finding = call.finding
        /\ call'.threshold = call.threshold
        /\ c' = c)
       => (/\ finding'.Category = finding.Category
           /\ finding'.Confidence = finding.Confidence)]_vars

\* the categories that score highest for finding f
TiedAtMax(f) ==
    {k \in DOMAIN c.categoryData :
        \A j \in DOMAIN c.categoryData :
            RatLeq(calculateScore(f, c.categoryData[j]),
                   calculateScore(f, c.categoryData[k]))}

LexSmallest(S) == CHOOSE k \in S : \A j \in S \ {k} : LexLess(k, j)

\* C3: when two or more categories tie at the maximum score, the category
\* selected is the lexicographically smallest of the tied ones.
C3_TieBreakLexSmallest ==
    (/\ Classified
     /\ Cardinality(TiedAtMax(call.finding)) >= 2
     /\ \E k \in TiedAtMax(call.finding) :
           RatLeq(call.threshold, calculateScore(call.finding, c.categoryData[k])))
    => finding.Category = LexSmallest(TiedAtMax(call.finding))

OtherFields ==
    {"ID", "Title", "Description", "Severity", "Location", "CodeSnippet",
     "Timestamp", "Remediation"}

\* the winners Classify can pick for finding f: a category of greatest score
\* with that score, or the empty name with score 0 when no category is loaded
Winners(f) ==
    IF DOMAIN c.categoryData = {}
    THEN {[category |-> b_empty, score |-> Zero]}
    ELSE {[category |-> k, score |-> calculateScore(f, c.categoryData[k])] :
            k \in TiedAtMax(f)}

\* C4: on an initialized classifier, Classify overwrites category and
\* confidence with the winning category and its score when that score is
\* >= the threshold, leaves both as they were otherwise, and changes no
\* other field of the finding.
C4_ClassifyEffect ==
    (call.op = "Classify" /\ c.initialized)
    => /\ err = "nil"
       /\ \A field \in OtherFields : finding[field] = call.finding[field]
       /\ \E w \in Winners(call.finding) :
            IF RatLeq(call.threshold, w.score)
            THEN /\ finding.Category = w.category
                 /\ finding.Confidence = w.score
            ELSE /\ finding.Category = call.finding.Category
                 /\ finding.Confidence = call.finding.Confidence

\* a finding classified earlier keeps its category and its non-zero
\* confidence when the winning score is below the threshold
C4_Witness ==
    /\ Classified
    /\ DOMAIN c.categoryData # {}
    /\ call.finding.Confidence # Zero
    /\ finding = call.finding
    /\ \A k \in DOMAIN c.categoryData :
          RatLess(calculateScore(call.finding, c.categoryData[k]), call.threshold)

AllPatternsMatch(f, features) ==
    \A i \in 1..Len(features.Patterns) :
        Contains(f.CodeSnippet, features.Patterns[i])

AllKeywordsMatch(f, features) ==
    \A i \in 1..Len(features.Keywords) :
        Contains(ToLower(f.Description), ToLower(features.Keywords[i]))

\* C5: a finding that matches every pattern and every keyword of a profile
\* with P + K > 0 scores exactly 1.0; a profile with no pattern and no
\* keyword scores 0.
C5_FullMatchScoresOne ==
    scoreOut.done =>
        LET f == scoreArgs.finding
            features == scoreArgs.features
            total == Len(features.Patterns) + Len(features.Keywords)
        IN  /\ (total > 0 /\ AllPatternsMatch(f, features)
                          /\ AllKeywordsMatch(f, features))
               => scoreOut.value = One
            /\ total = 0 => scoreOut.value = Zero

\* a full match on a profile with two patterns and two keywords
C5_Witness ==
    /\ scoreOut.done
    /\ scoreOut.value = One
    /\ Len(scoreArgs.features.Patterns) = 2
    /\ Len(scoreArgs.features.Keywords) = 2
    /\ b_SELECT = scoreArgs.features.Patterns[1]
    /\ AllPatternsMatch(scoreArgs.finding, scoreArgs.features)
    /\ AllKeywordsMatch(scoreArgs.finding, scoreArgs.features)

\* config.json and rules.json both load into a Classifier
ClassifierSourcesLoad ==
    /\ configFile.status = "ok"
    /\ rulesFile.status = "ok"
    /\ rulesFile.form = "object"

\* C6: Classify on a classifier whose config and rules were not both loaded
\* returns an error and leaves the finding unchanged; initialized is true
\* exactly when the classifier was constructed from two sources that load.
C6_NotInitialized ==
    /\ c.initialized <=> (c.constructed /\ ClassifierSourcesLoad)
    /\ (call.op = "Classify" /\ ~ClassifierSourcesLoad)
       => (err = "classifier not initialized" /\ finding = call.finding)

\* Classify refused after the config loaded and the rules did not
C6_Witness ==
    /\ call.op = "Classify"
    /\ err = "classifier not initialized"
    /\ configFile.status = "ok"
    /\ rulesFile.status = "malformed"
    /\ c.threshold = configFile.threshold
    /\ call.finding # ZeroFinding
    /\ finding = call.finding

\* the rules of rules.json that name category cat, in load order
RulesOfCategory(cat) == SelectSeq(rulesFile.rules, LAMBDA rule : rule.Category = cat)

\* C16: after loading, every category profile has one weight per pattern,
\* each weight is 1.0, its patterns are the patterns of the rules of that
\* category in load order with duplicates kept, and its threshold is the
\* global threshold read from the config.
C16_ProfilesFoldRules ==
    /\ c.initialized =>
         DOMAIN c.categoryData
           = {rulesFile.rules[i].Category : i \in 1..Len(rulesFile.rules)}
    /\ \A cat \in DOMAIN c.categoryData :
         LET profile == c.categoryData[cat]
             rs == RulesOfCategory(cat)
         IN  /\ Len(profile.Weights) = Len(profile.Patterns)
             /\ \A i \in 1..Len(profile.Weights) : profile.Weights[i] = One
             /\ profile.Patterns = [i \in 1..Len(rs) |-> rs[i].Pattern]
             /\ profile.Threshold = configFile.threshold

\* two rules of one category with the same pattern, loaded under a threshold
\* that UpdateThreshold has since replaced
C16_Witness ==
    /\ c.initialized
    /\ rulesFile.rules = <<Rule1, Rule4>>
    /\ c.categoryData[b_Injection].Patterns = <<b_SELECT, b_SELECT>>
    /\ c.categoryData[b_Injection].Weights = <<One, One>>
    /\ configFile.threshold = Half
    /\ c.threshold = One

----------------------------------------------------------------------------
(* Properties of the detector and of the statistics. *)

\* the last Analyze call returned its result with a nil error
Analyzed == analyzeErr = "nil"

HasPattern(rule) == rule.Pattern # b_empty

\* the rules an initialized detector holds: those of rules.json, none when
\* the file does not exist
LoadedRules == IF rulesFile.status = "missing" THEN <<>> ELSE rulesFile.rules

\* C8: before bounding, the sequence is the enhanced copy of each input
\* finding in input order, then one synthesized finding per loaded rule with
\* a non-empty pattern, in rule-load order, whatever the input holds.
C8_Concatenation ==
    Analyzed =>
        LET withPattern == SelectSeq(LoadedRules, HasPattern)
            n == Len(input)
        IN  /\ Len(enhancedFindings) = n + Len(withPattern)
            /\ \A i \in 1..n :
                 /\ enhancedFindings[i].ID = input[i].ID
                 /\ enhancedFindings[i].Description
                      = input[i].Description \o b_AIVerified
            /\ \A j \in 1..Len(withPattern) :
                 LET g == enhancedFindings[n + j]
                     rule == withPattern[j]
                 IN  /\ g.ID = "AI-" \o rule.ID
                     /\ g.Title = rule.Name
                     /\ g.Description = rule.Description
                     /\ g.Severity = rule.Severity
                     /\ g.Category = rule.Category
                     /\ g.Confidence = Zero

\* Rule1 is synthesized although the input already holds a finding for it,
\* and the rule without a pattern is passed over
C8_Witness ==
    /\ Analyzed
    /\ d.rules = <<Rule3, Rule1>>
    /\ input = <<ruleFinding(Rule1)>>
    /\ Len(enhancedFindings) = 2
    /\ enhancedFindings[2] = ruleFinding(Rule1)

EnhancerLeaves ==
    {"ID", "Title", "Severity", "Category", "Location", "CodeSnippet",
     "Timestamp", "Confidence"}

\* C9: the enhanced finding's description is the original one followed by
\* " (AI Verified)"; its remediation is the default string when the original
\* was empty and the original otherwise; every other field is unchanged.
C9_Enrichment ==
    Analyzed =>
        \A i \in 1..Len(input) :
            LET f == input[i]
                e == enhancedFindings[i]
            IN  /\ e.Description = f.Description \o b_AIVerified
                /\ e.Remediation = IF f.Remediation = ""
                                   THEN "AI suggested: Review and sanitize all inputs"
                                   ELSE f.Remediation
                /\ \A field \in EnhancerLeaves : e[field] = f[field]

\* one finding gets the default remediation, the other keeps its own
C9_Witness ==
    /\ Analyzed
    /\ Len(input) = 2
    /\ input[1].Remediation = ""
    /\ input[2].Remediation = "Rotate the key"
    /\ enhancedFindings[1].Remediation = DefaultRemediation
    /\ enhancedFindings[2].Remediation = "Rotate the key"
    /\ enhancedFindings[2].Description = b_key \o b_AIVerified

\* C10: calculateStats returns TotalFindings equal to the number of findings
\* and five severity counts that sum to TotalFindings.
C10_StatsSumToTotal ==
    report.generated =>
        LET st == report.SummaryStats
        IN  /\ st.TotalFindings = Len(report.Findings)
            /\ st.CriticalCount + st.HighCount + st.MediumCount
                 + st.LowCount + st.InfoCount = st.TotalFindings

\* config.json gives the detector no maxFindings: there is no file, or the
\* file is read and has no such key
NoMaxFindingsSupplied ==
    \/ configFile.status = "missing"
    \/ configFile.status = "ok" /\ ~configFile.hasMaxFindings

\* C15: whenever the configuration does not supply maxFindings, an
\* initialized detector bounds the output of Analyze at 100 findings.
C15_DefaultMaxFindings ==
    (Analyzed /\ NoMaxFindingsSupplied) =>
        LET n == Len(enhancedFindings)
        IN  aiResults = SubSeq(enhancedFindings, 1,
                               IF n > DefaultMaxFindings
                               THEN DefaultMaxFindings ELSE n)

\* Analyze has been called
AnalyzeCalled == analyzeErr # "none"

AnalyzeRefused ==
    /\ analyzeErr = "detector not properly initialized"
    /\ aiResults = input
    /\ enhancedFindings = <<>>

\* rules.json or config.json is absent, unreadable or not what the detector parses
SourceMissingOrMalformed ==
    \/ rulesFile.status # "ok"
    \/ rulesFile.form # "array"
    \/ configFile.status # "ok"

SourcePresentAndBad ==
    \/ rulesFile.status \in {"unreadable", "malformed"}
    \/ rulesFile.status = "ok" /\ rulesFile.form # "array"
    \/ configFile.status \in {"unreadable", "malformed"}

----------------------------------------------------------------------------
(* Properties of main and of the scanner. *)

\* Scan has been called
ScanCalled == scanErr # NoError

\* C11: in main, when the rule source or the config source is unreadable or
\* malformed, the scan is aborted before any matching: Scan never runs after
\* the failed load, and no report is generated.
C11_AbortBeforeScan ==
    (d.constructed /\ SourcePresentAndBad)
    => /\ ~ScanCalled
       /\ analyzedPaths = <<>>
       /\ pc \notin {"scanned", "analyzed", "done"}
       /\ ~report.generated

\* the regular expression of a rule matches the content of a file; the
\* patterns of Rule1 and Rule2 hold no metacharacter, so they match exactly
\* where they occur as a substring
PatternMatches(rule, content) == Contains(content, rule.Pattern)

\* C13: for each file and each rule whose pattern matches the file's
\* content, the result of Scan holds a raw finding carrying that rule's
\* severity and category with confidence 0.
C13_MatchEmitsFinding ==
    (scanErr = NilError /\ rulesFile.status = "ok")
    => \A i \in 1..Len(walk) : \A j \in 1..Len(rulesFile.rules) :
         (~walk[i].isDir /\ PatternMatches(rulesFile.rules[j], walk[i].content))
         => \E k \in 1..Len(scanFindings) :
              /\ scanFindings[k].Severity = rulesFile.rules[j].Severity
              /\ scanFindings[k].Category = rulesFile.rules[j].Category
              /\ scanFindings[k].Confidence = Zero

\* the positions of the walk at which access to the entry fails
FailedAt == {i \in 1..Len(walk) : walk[i].err}

\* the paths of the files among the first n entries of the walk
FilesBefore(n) ==
    LET first == SubSeq(walk, 1, n)
        files == SelectSeq(first, LAMBDA e : ~e.isDir /\ ~e.err)
    IN  [i \in 1..Len(files) |-> files[i].path]

\* what analyzeFile returns for the given paths, one after another
RECURSIVE Collected(_)
Collected(paths) ==
    IF paths = <<>> THEN <<>>
    ELSE analyzeFile(Head(paths)).findings \o Collected(Tail(paths))

\* C17: when the analysis of a file or the walk's access to an entry fails,
\* no later file is analyzed, Scan returns a non-nil error (with the file's
\* path for an analysis failure) and exactly the findings collected from the
\* files analyzed before the failure, in walk order; without a failure every
\* file is analyzed and the error is nil.
C17_FailFast ==
    ScanCalled =>
        /\ IF FailedAt # {}
           THEN LET f == CHOOSE i \in FailedAt : \A j \in FailedAt : i <= j
                IN  /\ scanErr = [kind |-> "walk", path |-> walk[f].path]
                    /\ analyzedPaths = FilesBefore(f - 1)
           ELSE /\ scanErr.kind \in {"nil", "analyzing"}
                /\ scanErr.kind = "nil" => analyzedPaths = FilesBefore(Len(walk))
        /\ scanErr.kind = "analyzing" =>
             /\ analyzedPaths # <<>>
             /\ scanErr.path = analyzedPaths[Len(analyzedPaths)]
             /\ \E n \in 1..Len(walk) : analyzedPaths = FilesBefore(n)
        /\ scanFindings = Collected(IF scanErr.kind = "analyzing"
                                    THEN SubSeq(analyzedPaths, 1,
                                                Len(analyzedPaths) - 1)
                                    ELSE analyzedPaths)

\* a.go is analyzed, access to b.go fails, c.go is never analyzed
C17_Witness ==
    /\ ScanCalled
    /\ Len(walk) = 3
    /\ walk[1].path = "a.go"
    /\ walk[2].path = "b.go"
    /\ walk[3].path = "c.go"
    /\ analyzedPaths = <<"a.go">>
    /\ scanErr = [kind |-> "walk", path |-> "b.go"]
    /\ pc = "fatal"

----------------------------------------------------------------------------
(* Properties of parallel classification. *)

AllClassified ==
    /\ \A w \in DOMAIN workers : workers[w].pc = "done"
    /\ \A i \in DOMAIN serial : serial[i].done

\* C14: findings classified in parallel without locking, each by its own
\* worker, end with the same category and confidence as the same findings
\* classified one after another.
C14_ParallelEqualsSerial ==
    AllClassified =>
        \A w \in DOMAIN workers :
            /\ workers[w].finding.Category = serial[w].finding.Category
            /\ workers[w].finding.Confidence = serial[w].finding.Confidence

====
